---- MODULE Spec2Model ----
(***************************************************************************)
(* image-concat-rs (src/src/lib.rs): concatenation of raster images into   *)
(* one ImageBuffer, vertically, horizontally or in columns.                *)
(*                                                                         *)
(* An ImageBuffer is modelled as [w, h, data]: its dimensions and its      *)
(* row-major pixel vector.  A pixel is Rgb<u8>: three bytes.  Every byte   *)
(* of every source image is distinct (<<id, c, r, ch>>: image id, column,  *)
(* row, channel), so that where a byte of the result came from can be      *)
(* read off the result; a freshly allocated buffer holds ZeroByte.          *)
(* Dimensions stay far below 2^32: u32 overflow is outside the model.      *)
(***************************************************************************)
EXTENDS Integers, Sequences, FiniteSets, TLC

\* ---------------------------------------------------------------- bounds
MaxImgs == 3
MaxDim == 2
MaxCols == 4
MaxBlits == 2

\* --------------------------------------------------------------- helpers
max(a, b) == IF a >= b THEN a ELSE b

min(a, b) == IF a <= b THEN a ELSE b

\* Bytes per pixel of the RgbImage (Rgb<u8>) that load_and_vert_concat_images allocates.
Channels == 3

ZeroByte == <<0, 0, 0, 0>>

ZeroPixel == <<ZeroByte, ZeroByte, ZeroByte>>

SrcByte(id, c, r, ch) == <<id, c, r, ch>>

SrcPixel(id, c, r) == <<SrcByte(id, c, r, 0), SrcByte(id, c, r, 1), SrcByte(id, c, r, 2)>>

\* A decoded source image: image number id, w x h, row-major.
MkImage(id, w, h) ==
    [w |-> w, h |-> h,
     data |-> [k \in 1..(w * h) |-> SrcPixel(id, (k - 1) % w, (k - 1) \div w)]]

\* ImageBuffer::new(w, h): zero-initialised.
ImageBufferNew(w, h) ==
    [w |-> w, h |-> h, data |-> [k \in 1..(w * h) |-> ZeroPixel]]

NoImage == [w |-> 0, h |-> 0, data |-> <<>>]

get_pixel(img, x, y) == img.data[y * img.w + x + 1]

\* ---------------------------------------------------------------- results
Pending == [kind |-> "pending", err |-> "", at |-> 0, img |-> NoImage,
            ranges |-> <<>>, chunks |-> <<>>]

RetOk(img) == [kind |-> "ok", err |-> "", at |-> 0, img |-> img,
               ranges |-> <<>>, chunks |-> <<>>]

RetErr(e, i) == [kind |-> "err", err |-> e, at |-> i, img |-> NoImage,
                 ranges |-> <<>>, chunks |-> <<>>]

RetPanic(msg) == [kind |-> "panic", err |-> msg, at |-> 0, img |-> NoImage,
                  ranges |-> <<>>, chunks |-> <<>>]

\* ------------------------------------------------- get_concat_blits
\* A faulty variant: the vertical step advances y by the image's width.
RECURSIVE get_concat_blits_fold_by_width(_, _, _, _, _, _)
get_concat_blits_fold_by_width(images, concat_direction, i, x, y, blits) ==
    IF i > Len(images) THEN blits
    ELSE LET img == images[i]
             blit == [img |-> img, x |-> x, y |-> y]
         IN IF concat_direction = "Vertical"
            THEN get_concat_blits_fold_by_width(images, concat_direction, i + 1,
                                                x, y + img.w, Append(blits, blit))
            ELSE get_concat_blits_fold_by_width(images, concat_direction, i + 1,
                                                x + img.w, y, Append(blits, blit))

RECURSIVE get_concat_blits_fold(_, _, _, _, _, _)
get_concat_blits_fold(images, concat_direction, i, x, y, blits) ==
    IF i > Len(images) THEN blits
    ELSE LET img == images[i]
             blit == [img |-> img, x |-> x, y |-> y]
         IN IF concat_direction = "Vertical"
            THEN get_concat_blits_fold(images, concat_direction, i + 1,
                                       x, y + img.h, Append(blits, blit))
            ELSE get_concat_blits_fold(images, concat_direction, i + 1,
                                       x + img.w, y, Append(blits, blit))

get_concat_blits(images, concat_direction, start_x, start_y) ==
    get_concat_blits_fold(images, concat_direction, 1, start_x, start_y, <<>>)

\* ------------------------------------------------- place_images_in_buffer
\* A faulty variant: the buffer is sized from the images' dimensions, their offsets forgotten.
RECURSIVE total_dims_no_offset(_, _, _, _)
total_dims_no_offset(blits, i, max_width, max_height) ==
    IF i > Len(blits) THEN <<max_width, max_height>>
    ELSE total_dims_no_offset(blits, i + 1,
                              max(max_width, blits[i].img.w),
                              max(max_height, blits[i].img.h))

RECURSIVE total_dims(_, _, _, _)
total_dims(blits, i, max_width, max_height) ==
    IF i > Len(blits) THEN <<max_width, max_height>>
    ELSE total_dims(blits, i + 1,
                    max(max_width, blits[i].x + blits[i].img.w),
                    max(max_height, blits[i].y + blits[i].img.h))

\* A faulty variant: a pixel already written by an earlier blit is kept.
copy_from_keep_first(buffer, other, x, y) ==
    IF buffer.w < other.w + x \/ buffer.h < other.h + y
    THEN [ok |-> FALSE, buffer |-> buffer]
    ELSE [ok |-> TRUE,
          buffer |-> [buffer EXCEPT !.data =
              [k \in 1..(buffer.w * buffer.h) |->
                  LET cx == (k - 1) % buffer.w
                      cy == (k - 1) \div buffer.w
                  IN IF /\ x <= cx /\ cx < x + other.w
                        /\ y <= cy /\ cy < y + other.h
                        /\ buffer.data[k] = ZeroPixel
                     THEN get_pixel(other, cx - x, cy - y)
                     ELSE buffer.data[k]]]]

\* GenericImage::copy_from: the bounds check, then every pixel of other put at
\* (i + x, k + y).
copy_from(buffer, other, x, y) ==
    IF buffer.w < other.w + x \/ buffer.h < other.h + y
    THEN [ok |-> FALSE, buffer |-> buffer]
    ELSE [ok |-> TRUE,
          buffer |-> [buffer EXCEPT !.data =
              [k \in 1..(buffer.w * buffer.h) |->
                  LET cx == (k - 1) % buffer.w
                      cy == (k - 1) \div buffer.w
                  IN IF /\ x <= cx /\ cx < x + other.w
                        /\ y <= cy /\ cy < y + other.h
                     THEN get_pixel(other, cx - x, cy - y)
                     ELSE buffer.data[k]]]]

RECURSIVE copy_all(_, _, _)
copy_all(buffer, blits, i) ==
    IF i > Len(blits) THEN RetOk(buffer)
    ELSE LET r == copy_from(buffer, blits[i].img, blits[i].x, blits[i].y)
         IN IF r.ok THEN copy_all(r.buffer, blits, i + 1)
            ELSE RetErr("DimensionMismatch", i)

place_images_in_buffer(blits) ==
    LET total == total_dims(blits, 1, 0, 0)
    IN copy_all(ImageBufferNew(total[1], total[2]), blits, 1)

\* ------------------------------------------------- concat_images
concat_images(images, direction) ==
    place_images_in_buffer(get_concat_blits(images, direction, 0, 0))

\* ------------------------------------------------- column_concat_images
\* Whether &v[start..end] is in bounds for a slice of length len.
slice_ok(len, start, end) == start <= end /\ end <= len

RECURSIVE widest_blit(_, _, _)
widest_blit(col_blits, i, acc) ==
    IF i > Len(col_blits) THEN acc
    ELSE widest_blit(col_blits, i + 1, max(acc, col_blits[i].x + col_blits[i].img.w))

\* The column loop of column_concat_images, from column idx on.  chunks lists the
\* slices <<start, end>> of images taken so far.
RECURSIVE column_blits(_, _, _, _, _, _, _, _, _)
column_blits(images, columns, chunk_size, chunk_remainder, idx, start, x, blits, chunks) ==
    IF idx >= columns THEN [panic |-> "", blits |-> blits, chunks |-> chunks]
    ELSE LET size == IF idx < chunk_remainder THEN chunk_size + 1 ELSE chunk_size
             end == start + size
         IN IF end >= Len(images)
            THEN [panic |-> "", blits |-> blits, chunks |-> chunks]
            ELSE IF ~slice_ok(Len(images), start, end)
            THEN [panic |-> "range end index out of range for slice",
                  blits |-> blits, chunks |-> chunks]
            ELSE IF size = 0
            THEN [panic |-> "called Option::unwrap() on a None value",
                  blits |-> blits, chunks |-> Append(chunks, <<start, end>>)]
            ELSE LET col_blits == get_concat_blits(SubSeq(images, start + 1, end),
                                                   "Vertical", x, 0)
                     max_width == widest_blit(col_blits, 1, 0) - x
                 IN column_blits(images, columns, chunk_size, chunk_remainder,
                                 idx + 1, end, x + max_width, blits \o col_blits,
                                 Append(chunks, <<start, end>>))

column_concat_images(images, columns) ==
    IF columns = 0 THEN RetPanic("attempt to divide by zero")
    ELSE LET num_images == Len(images)
             plan == column_blits(images, columns, num_images \div columns,
                                  num_images % columns, 0, 0, 0, <<>>, <<>>)
         IN IF plan.panic # "" THEN [RetPanic(plan.panic) EXCEPT !.chunks = plan.chunks]
            ELSE [place_images_in_buffer(plan.blits) EXCEPT !.chunks = plan.chunks]

\* ------------------------------------------------- load_and_vert_concat_images
\* A file is [id, w, h, st]: the dimensions its header declares and how far loading
\* it gets: "ok", "no_file" (ImageReader::open fails), "bad_header" (into_decoder
\* fails), "bad_data" (read_image fails).

\* A faulty variant: total_height tracks the tallest image instead of the sum of the heights.
RECURSIVE open_decoders_max_height(_, _, _, _)
open_decoders_max_height(image_paths, i, total_height, max_width) ==
    IF i > Len(image_paths)
    THEN [err |-> "", at |-> 0, total_height |-> total_height, max_width |-> max_width]
    ELSE LET f == image_paths[i]
         IN IF f.st = "no_file"
            THEN [err |-> "IoError", at |-> f.id, total_height |-> 0, max_width |-> 0]
            ELSE IF f.st = "bad_header"
            THEN [err |-> "Decoding", at |-> f.id, total_height |-> 0, max_width |-> 0]
            ELSE open_decoders_max_height(image_paths, i + 1, max(total_height, f.h),
                                          max(max_width, f.w))

\* The first loop: open every path and read its dimensions, stopping at the first error.
RECURSIVE open_decoders(_, _, _, _)
open_decoders(image_paths, i, total_height, max_width) ==
    IF i > Len(image_paths)
    THEN [err |-> "", at |-> 0, total_height |-> total_height, max_width |-> max_width]
    ELSE LET f == image_paths[i]
         IN IF f.st = "no_file"
            THEN [err |-> "IoError", at |-> f.id, total_height |-> 0, max_width |-> 0]
            ELSE IF f.st = "bad_header"
            THEN [err |-> "Decoding", at |-> f.id, total_height |-> 0, max_width |-> 0]
            ELSE open_decoders(image_paths, i + 1, total_height + f.h,
                               max(max_width, f.w))

\* decoder.total_bytes() of an Rgb8 image.
total_bytes(f) == Channels * f.w * f.h

\* Byte j (from 0) of the decoded image: row-major, three bytes per pixel.
raw_byte(f, j) ==
    LET p == j \div Channels
    IN SrcByte(f.id, p % f.w, p \div f.w, j % Channels)

\* decoder.read_image(slice) for the slice [byte_start, byte_end) of bytes: the
\* whole image when the data is good; when it is not, the rows decoded before the
\* error (at most partial of them) and Err.
read_image(f, bytes, byte_start, byte_end, partial) ==
    LET rows == IF f.st = "bad_data" THEN min(partial, f.h) ELSE f.h
        written == Channels * f.w * rows
    IN [ok |-> f.st # "bad_data",
        bytes |-> [k \in 1..Len(bytes) |->
                     IF byte_start < k /\ k <= byte_end /\ k - byte_start <= written
                     THEN raw_byte(f, k - byte_start - 1)
                     ELSE bytes[k]]]

\* The second loop: decode each image into its byte range of the buffer.  The
\* result of read_image is dropped (let _ = ...).
RECURSIVE decode_all(_, _, _, _, _, _)
decode_all(decoders, i, byte_start, bytes, ranges, partial) ==
    IF i > Len(decoders) THEN [panic |-> "", bytes |-> bytes, ranges |-> ranges]
    ELSE LET byte_len == total_bytes(decoders[i])
             byte_end == byte_start + byte_len
         IN IF ~slice_ok(Len(bytes), byte_start, byte_end)
            THEN [panic |-> "called Option::unwrap() on a None value",
                  bytes |-> bytes, ranges |-> Append(ranges, <<byte_start, byte_end>>)]
            ELSE decode_all(decoders, i + 1, byte_end,
                            read_image(decoders[i], bytes, byte_start, byte_end, partial).bytes,
                            Append(ranges, <<byte_start, byte_end>>), partial)

\* The RgbImage over a byte vector of length 3 * w * h.
image_of_bytes(w, h, bytes) ==
    [w |-> w, h |-> h,
     data |-> [k \in 1..(w * h) |->
                 <<bytes[Channels * (k - 1) + 1], bytes[Channels * (k - 1) + 2],
                   bytes[Channels * (k - 1) + 3]>>]]

load_and_vert_concat_images(image_paths, partial) ==
    LET opened == open_decoders(image_paths, 1, 0, 0)
    IN IF opened.err # "" THEN RetErr(opened.err, opened.at)
       ELSE LET len == Channels * opened.max_width * opened.total_height
                dec == decode_all(image_paths, 1, 0, [k \in 1..len |-> ZeroByte],
                                  <<>>, partial)
            IN IF dec.panic # ""
               THEN [RetPanic(dec.panic) EXCEPT !.ranges = dec.ranges]
               ELSE [RetOk(image_of_bytes(opened.max_width, opened.total_height,
                                          dec.bytes))
                        EXCEPT !.ranges = dec.ranges]

\* ------------------------------------------------- load_and_column_concat_images
RECURSIVE load_columns(_, _, _, _, _, _, _, _, _)
load_columns(image_paths, columns, chunk_size, chunk_remainder, idx, start, col_buffs, chunks, partial) ==
    IF idx >= columns
    THEN [concat_images(col_buffs, "Horizontal") EXCEPT !.chunks = chunks]
    ELSE LET size == IF idx < chunk_remainder THEN chunk_size + 1 ELSE chunk_size
             end == start + size
         IN IF ~slice_ok(Len(image_paths), start, end)
            THEN [RetPanic("range end index out of range for slice")
                     EXCEPT !.chunks = chunks]
            ELSE LET buff == load_and_vert_concat_images(
                                 SubSeq(image_paths, start + 1, end), partial)
                     taken == Append(chunks, <<start, end>>)
                 IN IF buff.kind # "ok"
                    THEN [buff EXCEPT !.chunks = taken, !.ranges = <<>>]
                    ELSE load_columns(image_paths, columns, chunk_size, chunk_remainder,
                                      idx + 1, end, Append(col_buffs, buff.img),
                                      taken, partial)

load_and_column_concat_images(image_paths, columns, partial) ==
    IF columns = 0 THEN RetPanic("attempt to divide by zero")
    ELSE load_columns(image_paths, columns, Len(image_paths) \div columns,
                      Len(image_paths) % columns, 0, 0, <<>>, <<>>, partial)

\* ---------------------------------------------------------------- inputs
Dims == 0..MaxDim

FileDims == 1..MaxDim

\* <<w, h, x, y>>: an image of w x h placed at (x, y), within MaxDim x MaxDim.
BlitPlacements ==
    {p \in Dims \X Dims \X Dims \X Dims : p[3] + p[1] <= MaxDim /\ p[4] + p[2] <= MaxDim}

Directions == {"Vertical", "Horizontal"}

FileStatus == {"ok", "no_file", "bad_header", "bad_data"}

\* The argument sequences of length n described by d.
ImagesOf(n, d) == [i \in 1..n |-> MkImage(i, d[i][1], d[i][2])]

PathsOf(n, d) == [i \in 1..n |-> [id |-> i, w |-> d[i][1], h |-> d[i][2], st |-> d[i][3]]]

BlitsOf(n, d) ==
    [i \in 1..n |-> [img |-> MkImage(i, d[i][1], d[i][2]), x |-> d[i][3], y |-> d[i][4]]]

NoCall == [fn |-> "", images |-> <<>>, paths |-> <<>>, blits |-> <<>>,
           columns |-> 1, direction |-> "Vertical"]

\* ---------------------------------------------------------------- the state machine
\* call: the library call being made, with its arguments; ret: what it returned
\* (Pending until it has).
VARIABLES call, ret

vars == <<call, ret>>

\* The calls of each function of the library, over the bounded arguments.
CallsConcatImages ==
    \E n \in 0..MaxImgs : \E d \in [1..n -> Dims \X Dims] : \E dir \in Directions :
        call = [NoCall EXCEPT !.fn = "concat_images",
                              !.images = ImagesOf(n, d), !.direction = dir]

CallsPlaceImagesInBuffer ==
    \E n \in 0..MaxBlits : \E d \in [1..n -> BlitPlacements] :
        call = [NoCall EXCEPT !.fn = "place_images_in_buffer", !.blits = BlitsOf(n, d)]

CallsColumnConcatImages ==
    \E n \in 0..MaxImgs : \E d \in [1..n -> Dims \X Dims] : \E c \in 0..MaxCols :
        call = [NoCall EXCEPT !.fn = "column_concat_images",
                              !.images = ImagesOf(n, d), !.columns = c]

CallsLoadAndVertConcatImages ==
    \E n \in 0..MaxImgs : \E d \in [1..n -> FileDims \X FileDims \X FileStatus] :
        call = [NoCall EXCEPT !.fn = "load_and_vert_concat_images",
                              !.paths = PathsOf(n, d)]

CallsLoadAndColumnConcatImages ==
    \E n \in 0..MaxImgs : \E d \in [1..n -> FileDims \X FileDims \X FileStatus] :
        \E c \in 0..MaxCols :
            call = [NoCall EXCEPT !.fn = "load_and_column_concat_images",
                                  !.paths = PathsOf(n, d), !.columns = c]

Init ==
    /\ ret = Pending
    /\ \/ CallsConcatImages
       \/ CallsPlaceImagesInBuffer
       \/ CallsColumnConcatImages
       \/ CallsLoadAndVertConcatImages
       \/ CallsLoadAndColumnConcatImages

ConcatImages ==
    /\ call.fn = "concat_images" /\ ret = Pending
    /\ ret' = concat_images(call.images, call.direction)
    /\ UNCHANGED call

PlaceImagesInBuffer ==
    /\ call.fn = "place_images_in_buffer" /\ ret = Pending
    /\ ret' = place_images_in_buffer(call.blits)
    /\ UNCHANGED call

ColumnConcatImages ==
    /\ call.fn = "column_concat_images" /\ ret = Pending
    /\ ret' = column_concat_images(call.images, call.columns)
    /\ UNCHANGED call

LoadAndVertConcatImages ==
    /\ call.fn = "load_and_vert_concat_images" /\ ret = Pending
    /\ \E partial \in 0..MaxDim :
          ret' = load_and_vert_concat_images(call.paths, partial)
    /\ UNCHANGED call

LoadAndColumnConcatImages ==
    /\ call.fn = "load_and_column_concat_images" /\ ret = Pending
    /\ \E partial \in 0..MaxDim :
          ret' = load_and_column_concat_images(call.paths, call.columns, partial)
    /\ UNCHANGED call

Next ==
    \/ ConcatImages
    \/ PlaceImagesInBuffer
    \/ ColumnConcatImages
    \/ LoadAndVertConcatImages
    \/ LoadAndColumnConcatImages

Spec == Init /\ [][Next]_vars

\* The calls of one function alone.
InitConcat == ret = Pending /\ CallsConcatImages

SpecConcat == InitConcat /\ [][ConcatImages]_vars

InitPlace == ret = Pending /\ CallsPlaceImagesInBuffer

SpecPlace == InitPlace /\ [][PlaceImagesInBuffer]_vars

InitVert == ret = Pending /\ CallsLoadAndVertConcatImages

SpecVert == InitVert /\ [][LoadAndVertConcatImages]_vars

\* ---------------------------------------------------------------- reference notions
RECURSIVE SeqSum(_)
SeqSum(s) == IF s = <<>> THEN 0 ELSE s[1] + SeqSum(Tail(s))

SeqMax(s) == IF s = <<>> THEN 0 ELSE CHOOSE m \in {s[i] : i \in 1..Len(s)} :
                                         \A i \in 1..Len(s) : s[i] <= m

WidthsOf(s) == [i \in 1..Len(s) |-> s[i].w]

HeightsOf(s) == [i \in 1..Len(s) |-> s[i].h]

Returned == ret # Pending

\* The images the files of a path sequence decode to.
DecodedImages(paths) == [i \in 1..Len(paths) |-> MkImage(paths[i].id, paths[i].w, paths[i].h)]

\* Blit i of blits covers canvas position (cx, cy).
Covers(blits, i, cx, cy) ==
    /\ blits[i].x <= cx /\ cx < blits[i].x + blits[i].img.w
    /\ blits[i].y <= cy /\ cy < blits[i].y + blits[i].img.h

Coverers(blits, cx, cy) == {i \in 1..Len(blits) : Covers(blits, i, cx, cy)}

NonOverlapping(blits) ==
    \A i, j \in 1..Len(blits) : i # j =>
        \/ blits[i].x + blits[i].img.w <= blits[j].x
        \/ blits[j].x + blits[j].img.w <= blits[i].x
        \/ blits[i].y + blits[i].img.h <= blits[j].y
        \/ blits[j].y + blits[j].img.h <= blits[i].y

\* The column policy: column j (from 1) of n images in c columns.
PlanSize(n, c, j) == IF j - 1 < n % c THEN n \div c + 1 ELSE n \div c

PlanStart(n, c, j) == SeqSum([k \in 1..(j - 1) |-> PlanSize(n, c, k)])

PlanGroup(images, c, j) ==
    SubSeq(images, PlanStart(Len(images), c, j) + 1,
           PlanStart(Len(images), c, j) + PlanSize(Len(images), c, j))

ChunkSizes(chunks) == [i \in 1..Len(chunks) |-> chunks[i][2] - chunks[i][1]]

\* ---------------------------------------------------------------- claims

\* C1: concat_images with ConcatDirection::Vertical on a non-empty sequence returns a
\* canvas whose height is the sum of the input heights and whose width is the
\* maximum of the input widths.
C1_VerticalDims ==
    (/\ call.fn = "concat_images" /\ call.direction = "Vertical"
     /\ Len(call.images) >= 1 /\ Returned)
    => /\ ret.kind = "ok"
       /\ ret.img.h = SeqSum(HeightsOf(call.images))
       /\ ret.img.w = SeqMax(WidthsOf(call.images))

C1_Witness ==
    /\ call.fn = "concat_images" /\ call.direction = "Vertical"
    /\ Len(call.images) = 3 /\ ret.kind = "ok"
    /\ call.images[1].w = 1 /\ call.images[2].w = 2 /\ call.images[3].w = 0
    /\ call.images[1].h = 2 /\ call.images[2].h = 1 /\ call.images[3].h = 2
    /\ ret.img.w = 2 /\ ret.img.h = 5

\* C2: concat_images with ConcatDirection::Horizontal on a non-empty sequence returns
\* a canvas whose width is the sum of the input widths and whose height is the
\* maximum of the input heights.
C2_HorizontalDims ==
    (/\ call.fn = "concat_images" /\ call.direction = "Horizontal"
     /\ Len(call.images) >= 1 /\ Returned)
    => /\ ret.kind = "ok"
       /\ ret.img.w = SeqSum(WidthsOf(call.images))
       /\ ret.img.h = SeqMax(HeightsOf(call.images))

C2_Witness ==
    /\ call.fn = "concat_images" /\ call.direction = "Horizontal"
    /\ Len(call.images) = 3 /\ ret.kind = "ok"
    /\ call.images[1].w = 2 /\ call.images[2].w = 1 /\ call.images[3].w = 2
    /\ call.images[1].h = 1 /\ call.images[2].h = 2 /\ call.images[3].h = 0
    /\ ret.img.w = 5 /\ ret.img.h = 2

\* C3: load_and_vert_concat_images places pixel (c, r) of image i at canvas position
\* (c, r + the heights of images 0..i-1), for images of equal or differing widths:
\* the result is the general-path vertical stack of the decoded images.
C3_VertLoadIsVerticalStack ==
    (/\ call.fn = "load_and_vert_concat_images" /\ Returned
     /\ \A i \in 1..Len(call.paths) : call.paths[i].st = "ok")
    => /\ ret.kind = "ok"
       /\ \A i \in 1..Len(call.paths) :
            \A c \in 0..(call.paths[i].w - 1), r \in 0..(call.paths[i].h - 1) :
               get_pixel(ret.img, c,
                         r + SeqSum(HeightsOf(SubSeq(call.paths, 1, i - 1))))
                  = SrcPixel(call.paths[i].id, c, r)
       /\ ret.img = concat_images(DecodedImages(call.paths), "Vertical").img

\* C4: in load_and_vert_concat_images and load_and_column_concat_images, when the
\* decoding of an image fails after the canvas was allocated, the call returns an
\* error naming that image and never Ok with a canvas.
C4_DecodeFailureIsError ==
    (/\ call.fn \in {"load_and_vert_concat_images", "load_and_column_concat_images"}
     /\ Returned /\ call.columns >= 1
     /\ \A i \in 1..Len(call.paths) : call.paths[i].st \in {"ok", "bad_data"}
     /\ \E i \in 1..Len(call.paths) : call.paths[i].st = "bad_data")
    => /\ ret.kind = "err"
       /\ ret.at \in {i \in 1..Len(call.paths) : call.paths[i].st = "bad_data"}

\* C5: load_and_column_concat_images and column_concat_images called with
\* columns = 0 return an InvalidArgument error value: they neither divide by zero
\* nor abort.
C5_ZeroColumnsInvalidArgument ==
    (/\ call.fn \in {"column_concat_images", "load_and_column_concat_images"}
     /\ call.columns = 0 /\ Returned)
    => ret.kind = "err" /\ ret.err = "InvalidArgument"

\* C6: for N images and C >= 1 columns, the sizes of the slices the two column
\* functions take sum to N, differ pairwise by at most 1, do not increase with the
\* column index, and are N div C + 1 for the first N mod C columns and N div C after.
C6_ColumnSizes ==
    (/\ call.columns >= 1 /\ Returned
     /\ \/ call.fn = "column_concat_images"
        \/ call.fn = "load_and_column_concat_images" /\ ret.kind = "ok")
    => LET n == IF call.fn = "column_concat_images" THEN Len(call.images)
                ELSE Len(call.paths)
           sizes == ChunkSizes(ret.chunks)
       IN /\ SeqSum(sizes) = n
          /\ \A i, j \in 1..Len(sizes) : sizes[i] - sizes[j] <= 1
          /\ \A i, j \in 1..Len(sizes) : i <= j => sizes[i] >= sizes[j]
          /\ \A i \in 1..Len(sizes) : sizes[i] = PlanSize(n, call.columns, i)

\* C7: with more columns than images (C > N >= 1) column_concat_images succeeds, the
\* empty columns add no width, and the canvas is as wide as the non-empty columns
\* together; one image in two columns gives a canvas of that image's size.
C7_MoreColumnsThanImages ==
    (/\ call.fn = "column_concat_images" /\ Returned
     /\ Len(call.images) >= 1 /\ call.columns > Len(call.images))
    => /\ ret.kind = "ok"
       /\ ret.img.w = SeqSum(WidthsOf(call.images))
       /\ ret.img.h = SeqMax(HeightsOf(call.images))

\* C8: column_concat_images returns the canvas obtained by vertically stacking each
\* contiguous column group and then horizontally stacking the column canvases in
\* column order; no input image is left out.
C8_ColumnsAreStackedStacks ==
    (/\ call.fn = "column_concat_images" /\ Returned /\ call.columns >= 1)
    => /\ ret.kind = "ok"
       /\ ret.img = concat_images(
              [j \in 1..call.columns |->
                  concat_images(PlanGroup(call.images, call.columns, j), "Vertical").img],
              "Horizontal").img

\* C9: after place_images_in_buffer, a canvas pixel covered by some blit holds the
\* source pixel of the last blit (in input order) covering it and an uncovered
\* pixel holds the initial fill; for pairwise non-overlapping blits every blit's
\* rectangle reads back as its source image.
C9_LastBlitWins ==
    (call.fn = "place_images_in_buffer" /\ Returned)
    => /\ ret.kind = "ok"
       /\ \A i \in 1..Len(call.blits) :
            /\ call.blits[i].x + call.blits[i].img.w <= ret.img.w
            /\ call.blits[i].y + call.blits[i].img.h <= ret.img.h
       /\ \A cx \in 0..(ret.img.w - 1), cy \in 0..(ret.img.h - 1) :
            LET cover == Coverers(call.blits, cx, cy)
            IN IF cover = {} THEN get_pixel(ret.img, cx, cy) = ZeroPixel
               ELSE LET b == call.blits[SeqMax([i \in 1..Len(call.blits) |->
                                                  IF i \in cover THEN i ELSE 0])]
                    IN get_pixel(ret.img, cx, cy) = get_pixel(b.img, cx - b.x, cy - b.y)
       /\ NonOverlapping(call.blits) =>
            \A i \in 1..Len(call.blits) :
               \A c \in 0..(call.blits[i].img.w - 1), r \in 0..(call.blits[i].img.h - 1) :
                  get_pixel(ret.img, call.blits[i].x + c, call.blits[i].y + r)
                     = get_pixel(call.blits[i].img, c, r)

C9_Witness ==
    /\ call.fn = "place_images_in_buffer" /\ ret.kind = "ok"
    /\ Len(call.blits) = 2
    /\ \E cx \in 0..(ret.img.w - 1), cy \in 0..(ret.img.h - 1) :
          /\ Coverers(call.blits, cx, cy) = {1, 2}
          /\ get_pixel(ret.img, cx, cy)
                = get_pixel(call.blits[2].img, cx - call.blits[2].x, cy - call.blits[2].y)
    /\ \E cx \in 0..(ret.img.w - 1), cy \in 0..(ret.img.h - 1) :
          Coverers(call.blits, cx, cy) = {1}
    /\ \E cx \in 0..(ret.img.w - 1), cy \in 0..(ret.img.h - 1) :
          Coverers(call.blits, cx, cy) = {} /\ get_pixel(ret.img, cx, cy) = ZeroPixel

\* C10: in load_and_vert_concat_images on 3-channel 8-bit images the byte ranges
\* [byte_start, byte_end) of successive images start at 0, are consecutive and
\* pairwise disjoint, and end within the buffer of 3 * max_width * total_height
\* bytes, so that the slice lookup never fails.
C10_ByteRanges ==
    (call.fn = "load_and_vert_concat_images" /\ Returned /\ ret.kind # "err")
    => LET n == Len(call.paths)
           rg == ret.ranges
           buflen == 3 * SeqMax(WidthsOf(call.paths)) * SeqSum(HeightsOf(call.paths))
       IN /\ ret.kind = "ok"
          /\ Len(rg) = n
          /\ 3 * Len(ret.img.data) = buflen
          /\ n >= 1 => rg[1][1] = 0
          /\ \A i \in 1..n :
                /\ rg[i][2] = rg[i][1] + 3 * call.paths[i].w * call.paths[i].h
                /\ rg[i][2] <= buflen
                /\ i < n => rg[i + 1][1] = rg[i][2]
          /\ \A i, j \in 1..n : i < j =>
                (rg[i][1]..(rg[i][2] - 1)) \cap (rg[j][1]..(rg[j][2] - 1)) = {}

C10_Witness ==
    /\ call.fn = "load_and_vert_concat_images" /\ ret.kind = "ok"
    /\ Len(call.paths) = 3
    /\ call.paths[1].w = 1 /\ call.paths[2].w = 2 /\ call.paths[3].w = 1
    /\ call.paths[1].h = 2
    /\ ret.ranges = <<<<0, 6>>, <<6, 6 + 6 * call.paths[2].h>>,
                      <<6 + 6 * call.paths[2].h,
                        6 + 6 * call.paths[2].h + 3 * call.paths[3].h>>>>
    /\ call.paths[2].h = 1 /\ call.paths[3].h = 2

====
